---- MODULE Spec2Model ----
(***************************************************************************)
(* The contacts screen: the page component (src/pages/Contacts.tsx) with   *)
(* its view toggle, selection, CSV import and bulk delete, and the         *)
(* analytics dashboard (src/components/contacts/                           *)
(* ContactAnalyticsDashboard.tsx) with its fetch and its memoized          *)
(* aggregates.  The hosted backend, the audit logger, the import hook and  *)
(* the contact table are collaborators seen through their interfaces.      *)
(***************************************************************************)
EXTENDS Integers, Sequences, FiniteSets, Bags, TLC

(***************************************************************************)
(* Bounds of the model.                                                    *)
(***************************************************************************)
\* most rows in the backend table when the page opens
NumContacts == 2
\* invocations of handleBulkDelete explored
MaxDeletes == 2
\* CSV imports explored
MaxImports == 1
\* most rows in a table filled with sample rows through "Add Contact"
MaxRows == 4
\* most rows in a table filled with rows of the industry series
MaxIndustryRows == 9

(***************************************************************************)
(* Contact rows.  A row is a record; an optional column that is null or    *)
(* undefined is a field the record does not have.  contact_name is the     *)
(* rank of the name in the backend's collation, which is all that          *)
(* .order('contact_name') reads.                                           *)
(***************************************************************************)
Contact(id, optional) == [id |-> id, contact_name |-> id] @@ optional

Has(c, f) == f \in DOMAIN c

\* Optional columns of the sample rows: every falsy and truthy shape of each
\* column the dashboard reads, scores inside, on the edges of and outside the
\* buckets, and two names every JavaScript object inherits.
SampleOptional ==
  << [company_name |-> "Acme", contact_source |-> "Website", industry |-> "Tech",
      segment |-> "Customer", score |-> 100],
     [company_name |-> "", contact_source |-> "", industry |-> "",
      segment |-> "", score |-> 0],
     [contact_source |-> "Website", industry |-> "Retail", score |-> 1],
     [segment |-> "Customer", score |-> 21],
     [contact_source |-> "constructor", score |-> 20],
     [segment |-> "__proto__", score |-> 101],
     [industry |-> "constructor"],
     [contact_source |-> "Unknown", segment |-> "Prospect", score |-> 0 - 3] >>

SampleContact(id) ==
  Contact(id, SampleOptional[((id - 1) % Len(SampleOptional)) + 1])

\* The industry series: "Industry 1", "Industry 2", ...
IndustryName(k) == "Industry " \o ToString(k)

(***************************************************************************)
(* A JavaScript object used as a string-keyed table (const t = {}): its    *)
(* own properties, in insertion order, as a sequence of [name, value],     *)
(* over Object.prototype.  A value is a number [num |-> n] or a string     *)
(* [str |-> s].                                                            *)
(***************************************************************************)
Num(n) == [num |-> n]
Str(s) == [str |-> s]
IsNum(v) == "num" \in DOMAIN v

\* What reading an inherited property gives, as `+` turns it into a string.
InheritedNames == {"constructor", "__proto__"}
InheritedText(k) ==
  IF k = "constructor" THEN "function Object() { [native code] }"
  ELSE "[object Object]"

OwnIndex(obj, k) ==
  IF \E i \in 1..Len(obj) : obj[i].name = k
  THEN CHOOSE i \in 1..Len(obj) : obj[i].name = k
  ELSE 0

\* (t[k] || 0) + 1
PlusOne(obj, k) ==
  LET i == OwnIndex(obj, k) IN
  IF i # 0
  THEN IF IsNum(obj[i].value) THEN Num(obj[i].value.num + 1)
       ELSE Str(obj[i].value.str \o "1")
  ELSE IF k \in InheritedNames THEN Str(InheritedText(k) \o "1")
       ELSE Num(1)

\* t[k] = v : the __proto__ setter ignores a value that is not an object
Assign(obj, k, v) ==
  LET i == OwnIndex(obj, k) IN
  IF i # 0 THEN [obj EXCEPT ![i].value = v]
  ELSE IF k = "__proto__" THEN obj
       ELSE Append(obj, [name |-> k, value |-> v])

\* contacts.forEach(c => { const k = c.f || dflt; t[k] = (t[k] || 0) + 1 })
\* followed by Object.entries(t).map(([name, value]) => ({ name, value }))
RECURSIVE CountBy(_, _, _)
CountBy(list, f, dflt) ==
  IF list = << >> THEN << >>
  ELSE LET n    == Len(list)
           obj  == CountBy(SubSeq(list, 1, n - 1), f, dflt)
           c    == list[n]
           k    == IF Has(c, f) /\ c[f] # "" THEN c[f] ELSE dflt
       IN Assign(obj, k, PlusOne(obj, k))

(***************************************************************************)
(* The dashboard's aggregates (the useMemo blocks).                        *)
(***************************************************************************)
\* c.score || 0
ScoreOf(c) == IF Has(c, "score") THEN c.score ELSE 0

RECURSIVE SumScores(_)
SumScores(list) ==
  IF list = << >> THEN 0
  ELSE SumScores(SubSeq(list, 1, Len(list) - 1)) + ScoreOf(list[Len(list)])

\* Faulty variant: Math.floor in place of Math.round
MathFloor(num, den) == num \div den

\* Math.round(num / den) for den > 0: the nearest integer, a half going up
MathRound(num, den) == (2 * num + den) \div (2 * den)

\* contacts.filter(c => c.f).length for a string column f
CountTruthy(list, f) ==
  Cardinality({i \in 1..Len(list) : Has(list[i], f) /\ list[i][f] # ""})

Stats(list) ==
  [totalContacts |-> Len(list),
   avgScore      |-> IF Len(list) > 0 THEN MathRound(SumScores(list), Len(list))
                     ELSE 0,
   withCompany   |-> CountTruthy(list, "company_name"),
   withSource    |-> CountTruthy(list, "contact_source")]

SourceData(list) == CountBy(list, "contact_source", "Unknown")

SegmentData(list) == CountBy(list, "segment", "Prospect")

\* (a, b) => b.value - a.value : a string operand makes it NaN, which sort
\* takes as 0
Compare(a, b) ==
  IF IsNum(a.value) /\ IsNum(b.value) THEN b.value.num - a.value.num ELSE 0

\* Array.prototype.sort is stable: an entry goes after those it does not
\* precede
RECURSIVE StableSort(_)
StableSort(entries) ==
  IF entries = << >> THEN << >>
  ELSE LET n    == Len(entries)
           done == StableSort(SubSeq(entries, 1, n - 1))
           x    == entries[n]
           keep == Cardinality({i \in 1..Len(done) :
                                  \A j \in 1..i : Compare(done[j], x) <= 0})
       IN SubSeq(done, 1, keep) \o << x >> \o SubSeq(done, keep + 1, Len(done))

\* The comparator orders the entries consistently unless a string value sits
\* beside two different counts; otherwise the order sort leaves is
\* implementation-defined.
Consistent(entries) ==
  \/ \A i \in 1..Len(entries) : IsNum(entries[i].value)
  \/ \A i, j \in 1..Len(entries) :
       IsNum(entries[i].value) /\ IsNum(entries[j].value)
         => entries[i].value = entries[j].value

SortOutcomes(entries) ==
  IF Consistent(entries) THEN {StableSort(entries)}
  ELSE {[i \in 1..Len(entries) |-> entries[p[i]]] :
          p \in Permutations(1..Len(entries))}

\* .slice(0, 8)
TopIndustries == 8
Slice(entries) ==
  SubSeq(entries, 1, IF Len(entries) < TopIndustries THEN Len(entries)
                     ELSE TopIndustries)

IndustryDataOutcomes(list) ==
  {Slice(s) : s \in SortOutcomes(CountBy(list, "industry", "Unknown"))}

Ranges ==
  << [range |-> "0-20",   min |-> 0,  max |-> 20],
     [range |-> "21-40",  min |-> 21, max |-> 40],
     [range |-> "41-60",  min |-> 41, max |-> 60],
     [range |-> "61-80",  min |-> 61, max |-> 80],
     [range |-> "81-100", min |-> 81, max |-> 100] >>

\* ranges.find(r => score >= r.min && score <= r.max): the first such range,
\* 0 for undefined
FindRange(score) ==
  LET hit == {i \in 1..Len(Ranges) : score >= Ranges[i].min /\ score <= Ranges[i].max}
  IN IF hit = {} THEN 0 ELSE CHOOSE i \in hit : \A j \in hit : i <= j

RECURSIVE RangeCounts(_)
RangeCounts(list) ==
  IF list = << >> THEN [i \in 1..Len(Ranges) |-> 0]
  ELSE LET n      == Len(list)
           counts == RangeCounts(SubSeq(list, 1, n - 1))
           r      == FindRange(ScoreOf(list[n]))
       IN IF r # 0 THEN [counts EXCEPT ![r] = @ + 1] ELSE counts

ScoreData(list) ==
  [i \in 1..Len(Ranges) |-> [name |-> Ranges[i].range, count |-> RangeCounts(list)[i]]]

(***************************************************************************)
(* State.                                                                  *)
(***************************************************************************)
VARIABLES
  table,             \* the rows of the backend's 'contacts' table
  viewMode,          \* Contacts: 'table' | 'analytics'
  selectedContacts,  \* Contacts: the selected ids
  refreshTrigger,    \* Contacts: the counter ContactTable refetches on
  isImporting,       \* useSimpleContactsImportExport: an import is running
  imports,           \* imports started so far
  deletes,           \* the invocations of handleBulkDelete, in call order
  requests,          \* the delete requests sent to the backend, in order
  auditLog,          \* the calls of logBulkDelete made so far, a bag
  toasts,            \* the notifications shown so far, a bag
  contacts,          \* ContactAnalyticsDashboard: the fetched rows
  loading,           \* ContactAnalyticsDashboard: loading
  fetch,             \* the dashboard's query: idle, sent, ok, failed
  stats,             \* the memoized aggregates of contacts
  sourceData,
  industryData,
  segmentData,
  scoreData

page      == <<viewMode, selectedContacts, refreshTrigger, isImporting, imports>>
bulk      == <<deletes, requests, auditLog, toasts>>
dashboard == <<contacts, loading, fetch>>
memo      == <<stats, sourceData, industryData, segmentData, scoreData>>
vars      == <<table, page, bulk, dashboard, memo>>

Ids(rows) == {r.id : r \in rows}

(***************************************************************************)
(* ContactAnalyticsDashboard.                                              *)
(***************************************************************************)
\* The useMemo blocks, recomputed by the render that follows setContacts.
Memoize(list) ==
  /\ stats' = Stats(list)
  /\ sourceData' = SourceData(list)
  /\ industryData' \in IndustryDataOutcomes(list)
  /\ segmentData' = SegmentData(list)
  /\ scoreData' = ScoreData(list)

\* A fresh instance: useState([]), useState(true), nothing fetched.
Unmounted ==
  /\ contacts' = << >>
  /\ loading' = TRUE
  /\ fetch' = "idle"
  /\ Memoize(<< >>)

\* useEffect(() => { fetchContacts() }, []) up to the await: setLoading(true)
\* and the query is sent.
Mount ==
  /\ contacts' = << >>
  /\ loading' = TRUE
  /\ fetch' = "sent"
  /\ Memoize(<< >>)

\* What the component returns: the spinner while loading, else the cards
\* and charts.
Rendered ==
  IF viewMode # "analytics" THEN "table"
  ELSE IF loading THEN "spinner" ELSE "aggregates"

\* .order('contact_name')
RECURSIVE OrderByName(_)
OrderByName(rows) ==
  IF rows = {} THEN << >>
  ELSE LET first == CHOOSE r \in rows : \A q \in rows : r.contact_name <= q.contact_name
       IN << first >> \o OrderByName(rows \ {first})

\* The backend answers the select: an error, the rows in name order, or no
\* data at all when there is no row to return.
SelectReplies ==
  {[kind |-> "error"], [kind |-> "data", data |-> OrderByName(table)]}
    \cup (IF table = {} THEN {[kind |-> "null"]} ELSE {})

\* Faulty variant: setLoading(false) at the end of the try block, not in finally
FetchSettleNoFinally(r) ==
  /\ fetch = "sent"
  /\ r \in SelectReplies
  /\ IF r.kind = "error"
     THEN /\ fetch' = "failed"
          /\ UNCHANGED <<contacts, loading, memo>>
     ELSE LET data == IF r.kind = "data" THEN r.data ELSE << >>
          IN /\ fetch' = "ok"
             /\ contacts' = data
             /\ loading' = FALSE
             /\ Memoize(data)
  /\ UNCHANGED <<table, page, bulk>>

\* The query settles and fetchContacts resumes: if (error) throw error;
\* setContacts(data || []); catch: console.error; finally: setLoading(false)
FetchSettle(r) ==
  /\ fetch = "sent"
  /\ r \in SelectReplies
  /\ IF r.kind = "error"
     THEN /\ fetch' = "failed"
          /\ UNCHANGED <<contacts, memo>>
     ELSE LET data == IF r.kind = "data" THEN r.data ELSE << >>
          IN /\ fetch' = "ok"
             /\ contacts' = data
             /\ Memoize(data)
  /\ loading' = FALSE
  /\ UNCHANGED <<table, page, bulk>>

(***************************************************************************)
(* Contacts: view toggle, selection, import.                               *)
(***************************************************************************)
\* onClick={() => setViewMode(m)}; the main area renders the dashboard iff
\* viewMode === 'analytics', so a change of mode mounts or unmounts it.
SetViewMode(m) ==
  /\ viewMode' = m
  /\ IF m = viewMode THEN UNCHANGED <<dashboard, memo>>
     ELSE IF m = "analytics" THEN Mount ELSE Unmounted
  /\ UNCHANGED <<table, selectedContacts, refreshTrigger, isImporting, imports, bulk>>

\* ContactTable, shown in the list view, toggles a row through
\* setSelectedContacts.
SelectContact(id) ==
  /\ viewMode = "table"
  /\ id \in Ids(table)
  /\ selectedContacts' = IF id \in selectedContacts THEN selectedContacts \ {id}
                         ELSE selectedContacts \cup {id}
  /\ UNCHANGED <<table, viewMode, refreshTrigger, isImporting, imports, bulk,
                 dashboard, memo>>

\* <Button disabled={isImporting}>Actions</Button> opens the menu
ActionsEnabled == ~isImporting

\* handleImportCSV: no file, return; else await handleImport(file)
HandleImportCSV(hasFile) ==
  /\ ~isImporting
  /\ imports < MaxImports
  /\ IF hasFile THEN isImporting' = TRUE /\ imports' = imports + 1
     ELSE UNCHANGED <<isImporting, imports>>
  /\ UNCHANGED <<table, viewMode, selectedContacts, refreshTrigger, bulk,
                 dashboard, memo>>

\* onRefresh
OnRefresh == refreshTrigger' = refreshTrigger + 1

\* handleImport settles: the file's rows are inserted and onRefresh is
\* called, or the import failed and nothing is.
ImportSettle(ok) ==
  /\ isImporting
  /\ isImporting' = FALSE
  /\ IF ok
     THEN /\ table' = table \cup {SampleContact(NumContacts + imports)}
          /\ OnRefresh
     ELSE UNCHANGED <<table, refreshTrigger>>
  /\ UNCHANGED <<viewMode, selectedContacts, imports, bulk, dashboard, memo>>

(***************************************************************************)
(* Contacts: handleBulkDelete.  An invocation stops at each await; the     *)
(* ids it uses throughout are the selectedContacts of the render it was    *)
(* called from.                                                            *)
(*   pc: sent     awaiting the delete request                              *)
(*       logging  awaiting logBulkDelete                                   *)
(*       done     ended in the try block                                   *)
(*       failed   ended in the catch block                                 *)
(***************************************************************************)
\* {selectedContacts.length > 0 && <DropdownMenuItem onClick={handleBulkDelete}>}
DeleteItemShown == Cardinality(selectedContacts) > 0

\* Faulty variant: .eq('id', selectedContacts[0])
RequestIdsFirst == {CHOOSE id \in selectedContacts : TRUE}

\* .in('id', selectedContacts)
RequestIds == selectedContacts

\* handleBulkDelete up to its first await
HandleBulkDelete ==
  IF Cardinality(selectedContacts) = 0
  THEN UNCHANGED <<deletes, requests>>
  ELSE /\ deletes' = Append(deletes, [ids |-> selectedContacts, pc |-> "sent",
                                      removed |-> {}])
       /\ requests' = Append(requests, [inv |-> Len(deletes) + 1, ids |-> RequestIds])

\* The user picks "Delete Selected" in the Actions menu.
ClickDeleteSelected ==
  /\ ActionsEnabled
  /\ DeleteItemShown
  /\ Len(deletes) < MaxDeletes
  /\ HandleBulkDelete
  /\ UNCHANGED <<table, page, auditLog, toasts, dashboard, memo>>

SuccessToast(i) ==
  [inv |-> i, title |-> "Success",
   description |-> ToString(Cardinality(deletes[i].ids)) \o " contacts deleted successfully"]

ErrorToast(i) ==
  [inv |-> i, title |-> "Error", description |-> "Failed to delete contacts",
   variant |-> "destructive"]

\* logBulkDelete('contacts', selectedContacts.length, selectedContacts)
LogEntry(i) ==
  [inv |-> i, table |-> "contacts", count |-> Cardinality(deletes[i].ids),
   ids |-> deletes[i].ids]

\* Faulty variant: the catch block also clears the selection
CatchClearsSelection(i) ==
  /\ toasts' = toasts (+) SetToBag({ErrorToast(i)})
  /\ deletes' = [deletes EXCEPT ![i].pc = "failed"]
  /\ selectedContacts' = {}
  /\ UNCHANGED refreshTrigger

\* catch (error) { toast({ title: "Error", ... }) }
Catch(i) ==
  /\ toasts' = toasts (+) SetToBag({ErrorToast(i)})
  /\ deletes' = [deletes EXCEPT ![i].pc = "failed"]
  /\ UNCHANGED <<selectedContacts, refreshTrigger>>

\* The backend runs delete().in('id', ids) as one statement, removing the
\* rows with these ids or failing and removing none, and the first await
\* resumes: if (error) throw error; else logBulkDelete is called with the
\* table name, the count and the ids.
DeleteSettle(i, ok) ==
  /\ i \in 1..Len(deletes)
  /\ deletes[i].pc = "sent"
  /\ IF ok
     THEN /\ table' = {r \in table : r.id \notin requests[i].ids}
          /\ auditLog' = auditLog (+) SetToBag({LogEntry(i)})
          /\ deletes' = [deletes EXCEPT ![i].pc = "logging",
                                        ![i].removed = Ids(table) \cap requests[i].ids]
          /\ UNCHANGED <<toasts, selectedContacts, refreshTrigger>>
     ELSE /\ Catch(i)
          /\ UNCHANGED <<table, auditLog>>
  /\ UNCHANGED <<viewMode, isImporting, imports, requests, dashboard, memo>>

\* toast({ title: "Success", ... }); setSelectedContacts([]);
\* setRefreshTrigger(prev => prev + 1)
Succeed(i) ==
  /\ toasts' = toasts (+) SetToBag({SuccessToast(i)})
  /\ selectedContacts' = {}
  /\ refreshTrigger' = refreshTrigger + 1
  /\ deletes' = [deletes EXCEPT ![i].pc = "done"]

\* The second await resumes: logBulkDelete's promise is fulfilled, or it is
\* rejected and the catch block runs.
LogSettle(i, ok) ==
  /\ i \in 1..Len(deletes)
  /\ deletes[i].pc = "logging"
  /\ IF ok THEN Succeed(i) ELSE Catch(i)
  /\ UNCHANGED <<table, viewMode, isImporting, imports, requests, auditLog,
                 dashboard, memo>>

(***************************************************************************)
(* Contacts: "Add Contact" opens the modal of ContactTable (list view),    *)
(* which inserts the new row.  The rows added are sample rows, or rows of  *)
(* the industry series, which either repeat "Industry 1" or bring the next *)
(* industry not yet in the table.                                          *)
(***************************************************************************)
NextId == Cardinality(table) + 1

SeriesRows ==
  {r \in table : Has(r, "industry")
                 /\ r.industry \in {IndustryName(k) : k \in 1..MaxIndustryRows}}

AddContact(j) ==
  /\ viewMode = "table"
  /\ SeriesRows = {}
  /\ Cardinality(table) < MaxRows
  /\ table' = table \cup {Contact(NextId, SampleOptional[j])}
  /\ UNCHANGED <<page, bulk, dashboard, memo>>

AddIndustryContact(k) ==
  /\ viewMode = "table"
  /\ SeriesRows = table
  /\ Cardinality(table) < MaxIndustryRows
  /\ k \in {1, Cardinality({r.industry : r \in table}) + 1}
  /\ table' = table \cup {Contact(NextId, [industry |-> IndustryName(k)])}
  /\ UNCHANGED <<page, bulk, dashboard, memo>>

(***************************************************************************)
(* The page opens in the list view, nothing selected, over the rows the    *)
(* backend holds.                                                          *)
(***************************************************************************)
InitOver(rows) ==
  /\ table = rows
  /\ viewMode = "table"
  /\ selectedContacts = {}
  /\ refreshTrigger = 0
  /\ isImporting = FALSE
  /\ imports = 0
  /\ deletes = << >>
  /\ requests = << >>
  /\ auditLog = EmptyBag
  /\ toasts = EmptyBag
  /\ contacts = << >>
  /\ loading = TRUE
  /\ fetch = "idle"
  /\ stats = Stats(<< >>)
  /\ sourceData = SourceData(<< >>)
  /\ industryData \in IndustryDataOutcomes(<< >>)
  /\ segmentData = SegmentData(<< >>)
  /\ scoreData = ScoreData(<< >>)

Init == \E n \in 0..NumContacts : InitOver({SampleContact(id) : id \in 1..n})

ViewNext ==
  \/ \E m \in {"table", "analytics"} : SetViewMode(m)
  \/ \E r \in SelectReplies : FetchSettle(r)

ImportNext ==
  \/ \E hasFile \in BOOLEAN : HandleImportCSV(hasFile)
  \/ \E ok \in BOOLEAN : ImportSettle(ok)

BulkNext ==
  \/ \E id \in 1..(NumContacts + MaxImports) : SelectContact(id)
  \/ ClickDeleteSelected
  \/ \E i \in 1..MaxDeletes, ok \in BOOLEAN : DeleteSettle(i, ok)
  \/ \E i \in 1..MaxDeletes, ok \in BOOLEAN : LogSettle(i, ok)

AddNext ==
  \/ \E j \in 1..Len(SampleOptional) : AddContact(j)
  \/ \E k \in 1..MaxIndustryRows : AddIndustryContact(k)

\* The whole page: view toggle, import, selection and bulk delete.
Next == ViewNext \/ ImportNext \/ BulkNext

Spec == Init /\ [][Next]_vars

\* The list view alone: selection and bulk delete.
ListSpec == Init /\ [][BulkNext]_vars

\* The page without bulk delete: view toggle, import and selection.  A query
\* that was sent settles, with rows or with an error, and its await resumes.
ViewSpecNext ==
  \/ ViewNext
  \/ ImportNext
  \/ \E id \in 1..(NumContacts + MaxImports) : SelectContact(id)

ViewSpec ==
  /\ Init
  /\ [][ViewSpecNext]_vars
  /\ WF_vars(\E r \in SelectReplies : FetchSettle(r))

\* The two views over a table that "Add Contact" fills.
DashNext == ViewNext \/ AddNext

DashSpec == InitOver({}) /\ [][DashNext]_vars

(***************************************************************************)
(* Properties.                                                             *)
(***************************************************************************)
ContactIds(list) == {list[i].id : i \in 1..Len(list)}

InFlight(i) == deletes[i].pc \in {"sent", "logging"}

\* C1: whenever the analytics view is displayed and its fetch has settled
\* successfully, the contacts the dashboard aggregates are the contacts the
\* backend table holds (stated for the behaviours in which nothing has been
\* imported, where only bulk deletes change the table).
AnalyticsShowsTable ==
  (imports = 0 /\ viewMode = "analytics" /\ fetch = "ok")
    => ContactIds(contacts) = Ids(table)

\* The requests are those of the invocations, one each, none of no ids.
OneRequestPerInvocation ==
  /\ Len(requests) = Len(deletes)
  /\ \A i \in 1..Len(requests) : requests[i].inv = i /\ requests[i].ids # {}

\* A step that starts an invocation sends one request, for the ids selected
\* at that moment, and changes nothing else; no other step sends a request;
\* nothing starts from an empty selection.
RequestOfSelection ==
  /\ Len(deletes') # Len(deletes) =>
       /\ selectedContacts # {}
       /\ Len(deletes') = Len(deletes) + 1
       /\ requests' = Append(requests, [inv |-> Len(deletes) + 1,
                                        ids |-> selectedContacts])
       /\ UNCHANGED <<table, page, auditLog, toasts>>
  /\ Len(deletes') = Len(deletes) => requests' = requests
  /\ selectedContacts = {} => requests' = requests /\ Len(deletes') = Len(deletes)

ErrorMeansNothingRemoved ==
  \A t \in BagToSet(toasts) : t.title = "Error" => deletes[t.inv].removed = {}

\* The step in which invocation i ends on the error of its delete request.
DeleteErrorFrame(i) ==
  (deletes[i].pc = "sent" /\ deletes'[i].pc = "failed") =>
    /\ selectedContacts' = selectedContacts
    /\ refreshTrigger' = refreshTrigger
    /\ auditLog' = auditLog
    /\ \A e \in BagToSet(auditLog) : e.inv # i
    /\ \E t \in BagToSet(toasts') :
         /\ toasts' = toasts (+) SetToBag({t})
         /\ t.inv = i /\ t.title = "Error"
         /\ t.description = "Failed to delete contacts"

\* The step in which invocation i ends in its try block.
DeleteSuccessFrame(i) ==
  (deletes[i].pc # "done" /\ deletes'[i].pc = "done") =>
    /\ refreshTrigger' = refreshTrigger + 1
    /\ selectedContacts' = {}
    /\ auditLog' = auditLog
    /\ \E e \in BagToSet(auditLog) :
         /\ e.inv = i /\ CopiesIn(e, auditLog) = 1
         /\ \A d \in BagToSet(auditLog) : d.inv = i => d = e
         /\ e.table = "contacts"
         /\ e.count = Cardinality(requests[i].ids)
         /\ e.ids = requests[i].ids
    /\ \E t \in BagToSet(toasts') :
         /\ toasts' = toasts (+) SetToBag({t})
         /\ t.inv = i /\ t.title = "Success"
         /\ t.description =
              ToString(Cardinality(requests[i].ids)) \o " contacts deleted successfully"

\* C9: when the delete request returns an error, the selection, the refresh
\* trigger and the audit log are left as they were, logBulkDelete has not been
\* called for the invocation, and one error notification is added; when the
\* invocation completes, the refresh trigger goes up by one, the selection is
\* emptied, one success notification is added, and logBulkDelete had by then
\* been called once for it, with the count and the ids of its request.
BulkDeleteFrame ==
  [][\A i \in 1..Len(deletes) : DeleteErrorFrame(i) /\ DeleteSuccessFrame(i)]_vars

\* one invocation has ended on a delete error, unlogged, and another, for two
\* contacts, has completed
BulkDeleteSettledBothWays ==
  \E i, j \in 1..Len(deletes) :
    /\ deletes[i].pc = "failed"
    /\ \A e \in BagToSet(auditLog) : e.inv # i
    /\ deletes[j].pc = "done"
    /\ Cardinality(requests[j].ids) >= 2

\* C10: while an invocation of handleBulkDelete is in flight, no other
\* invocation is in flight for any of the same ids.
NoConcurrentDeleteOfSameIds ==
  \A i, j \in 1..Len(deletes) :
    (i # j /\ InFlight(i) /\ InFlight(j)) => requests[i].ids \cap requests[j].ids = {}

\* The sum of the counts of a distribution, whose values must all be numbers.
AllCounts(entries) == \A i \in 1..Len(entries) : IsNum(entries[i].value)

RECURSIVE SumCounts(_)
SumCounts(entries) ==
  IF entries = << >> THEN 0
  ELSE entries[1].value.num + SumCounts(Tail(entries))

\* C3: the counts of sourceData sum to the number of contacts, and so do the
\* counts of segmentData.
SourceSegmentCountsSumToLength ==
  /\ AllCounts(sourceData) /\ SumCounts(sourceData) = Len(contacts)
  /\ AllCounts(segmentData) /\ SumCounts(segmentData) = Len(contacts)

\* C4: the counts of industryData sum to the number of contacts (stated for
\* the contacts whose industry is no name that objects inherit).
IndustryCountsSumToLength ==
  (\A i \in 1..Len(contacts) :
     Has(contacts[i], "industry") => contacts[i].industry \notin InheritedNames)
    => AllCounts(industryData) /\ SumCounts(industryData) = Len(contacts)

RECURSIVE SumBuckets(_)
SumBuckets(buckets) ==
  IF buckets = << >> THEN 0 ELSE buckets[1].count + SumBuckets(Tail(buckets))

\* C5: the counts of the five score buckets sum to the number of contacts.
ScoreCountsSumToLength == SumBuckets(scoreData) = Len(contacts)

\* The scores added up, a missing one as 0.
RECURSIVE TotalScore(_)
TotalScore(list) ==
  IF list = << >> THEN 0
  ELSE (IF "score" \in DOMAIN Head(list) THEN Head(list).score ELSE 0)
         + TotalScore(Tail(list))

\* C6: avgScore is 0 for no contacts and otherwise the mean of the scores, a
\* missing score counting as 0, rounded to the nearest integer with a half
\* going up: avg - 1/2 <= total / n < avg + 1/2; with every score in 0..100
\* it lies in 0..100.
AvgScoreIsRoundedMean ==
  LET n == Len(contacts)
      total == TotalScore(contacts)
      avg == stats.avgScore
  IN /\ n = 0 => avg = 0
     /\ n > 0 => /\ 2 * n * avg - n <= 2 * total
                 /\ 2 * total < 2 * n * avg + n
     /\ (\A i \in 1..n : Has(contacts[i], "score") => contacts[i].score \in 0..100)
          => avg \in 0..100

\* two or more contacts whose mean score ends in a half, one score missing
AvgScoreOfHalf ==
  /\ fetch = "ok"
  /\ Len(contacts) >= 2
  /\ (2 * TotalScore(contacts)) % (2 * Len(contacts)) = Len(contacts)
  /\ \E i \in 1..Len(contacts) : ~Has(contacts[i], "score")

\* The displayed dashboard is loading, and shows the spinner, exactly while
\* its fetch is in flight.
SpinnerWhileInFlight ==
  /\ fetch = "sent" => loading /\ Rendered = "spinner"
  /\ (viewMode = "analytics" /\ loading) => fetch = "sent"

\* list holds the rows of the table, each once, in name order
IsTableInNameOrder(list) ==
  /\ Len(list) = Cardinality(table)
  /\ {list[i] : i \in 1..Len(list)} = table
  /\ \A i, j \in 1..Len(list) : i < j => list[i].contact_name <= list[j].contact_name

\* The step in which the fetch settles.
FetchOutcome ==
  /\ (fetch = "sent" /\ fetch' = "ok") => ~loading' /\ IsTableInNameOrder(contacts')
  /\ (fetch = "sent" /\ fetch' = "failed") => ~loading' /\ contacts' = contacts

\* C7: the dashboard shows the spinner, never the aggregates, exactly while
\* its fetch is in flight; when the fetch succeeds the contacts become the
\* backend's rows in name order (none when it has none) and loading ends;
\* when it fails the contacts stay as they were and loading ends; and a
\* dashboard that is loading eventually is not, or is no longer shown.
LoadingLifecycle ==
  /\ []SpinnerWhileInFlight
  /\ [][FetchOutcome]_vars
  /\ (viewMode = "analytics" /\ loading) ~> (~loading \/ viewMode # "analytics")

\* the fetch has failed over a table that has rows, and the cards are shown
FetchFailedShown ==
  /\ viewMode = "analytics"
  /\ fetch = "failed"
  /\ ~loading
  /\ table # {}
  /\ Rendered = "aggregates"

====
